---- MODULE Spec2Model ----
(***************************************************************************)
(* KVR: an in-memory key-value store behind four Express routes            *)
(* (src/src/server.js).  The store is the plain JavaScript object          *)
(* `const store = {}`; its own properties are the entries, and it inherits *)
(* from Object.prototype like every object literal.  Node runs each route  *)
(* handler to completion on one thread, so a request is two steps: it is   *)
(* received (the body parser reads the body) and later its handler runs.   *)
(***************************************************************************)
EXTENDS Integers, Sequences, FiniteSets, TLC

VARIABLES store, pending, log

vars == <<store, pending, log>>

(* Bounds of the model. *)
MaxReq == 3

(* Key strings the route '/:key' accepts: an ordinary key and two names    *)
(* every plain object inherits from Object.prototype.                      *)
Keys == {"a", "constructor", "__proto__"}

(* Request bodies as bodyParser.text hands them over: text, possibly empty *)
Values == {"", "x"}

(* Names found on the prototype chain of an object literal. *)
ProtoNames == {"constructor", "__proto__", "toString", "valueOf", "hasOwnProperty"}

(* JavaScript values the handlers pass to res.send / res.json *)
JsString(s) == [t |-> "string", s |-> s]
JsObjectPrototype == [t |-> "object", s |-> "Object.prototype"]
JsFunction(name) == [t |-> "function", s |-> name]

(* `key in store`: own properties and the prototype chain *)
HasProperty(st, key) == key \in DOMAIN st \/ key \in ProtoNames

(* store[key] read *)
GetProperty(st, key) ==
    IF key \in DOMAIN st THEN JsString(st[key])
    ELSE IF key = "__proto__" THEN JsObjectPrototype
    ELSE JsFunction(key)

(* store[key] = value, value a string: the inherited __proto__ setter      *)
(* ignores a primitive; any other name becomes an own property.            *)
SetProperty(st, key, value) ==
    IF key = "__proto__" THEN st
    ELSE [k \in DOMAIN st \cup {key} |-> IF k = key THEN value ELSE st[k]]

(* delete store[key]: removes an own property, nothing else *)
DeleteProperty(st, key) == [k \in DOMAIN st \ {key} |-> st[k]]

(* Object.keys(store) *)
ObjectKeys(st) == DOMAIN st

(* Responses *)
Response(status, kind, field, val) ==
    [status |-> status, kind |-> kind, field |-> field, val |-> val]

(* res.json(obj) with a one-field object *)
ResJson(status, field, val) == Response(status, "json", field, val)

(* res.send(chunk): a string goes out as it is; an object goes through     *)
(* res.json (Object.prototype has no enumerable property and serialises    *)
(* to {}); a function is no valid chunk, Buffer.from throws on it and      *)
(* Express answers the request with its 500 error page.                    *)
ResSend(chunk) ==
    IF chunk.t = "string" THEN Response(200, "text", "", chunk.s)
    ELSE IF chunk.t = "object" THEN Response(200, "json", "", "{}")
    ELSE Response(500, "html", "", "TypeError")

NotFound == ResJson(404, "error", "Key not found")

(* A request: method, path (its segments; << >> is the root path "/") and  *)
(* the body the parser produced.  id is the order of arrival.              *)
Methods == {"GET", "PUT", "DELETE"}

Paths == {<<k>> : k \in Keys} \cup {<< >>}

Request(id, method, path, body) ==
    [id |-> id, method |-> method, path |-> path, body |-> body]

(* Express routing: '/:key' matches exactly one non-empty segment, '/'     *)
(* matches the root path; routes are tried in the order they are declared. *)
Route(method, path) ==
    IF method = "GET" /\ Len(path) = 1 THEN "get"
    ELSE IF method = "PUT" /\ Len(path) = 1 THEN "put"
    ELSE IF method = "DELETE" /\ Len(path) = 1 THEN "delete"
    ELSE IF method = "DELETE" /\ Len(path) = 0 THEN "delete_all"
    ELSE "none"

(* const { key } = req.params *)
KeyOf(r) == r.path[1]

(* Requests received so far *)
Arrived == Len(log) + Cardinality(pending)

Init ==
    /\ store = << >>
    /\ pending = {}
    /\ log = << >>

(* A request arrives and app.use(bodyParser.text(...)) reads its body;     *)
(* only PUT carries one.                                                   *)
Receive ==
    /\ Arrived < MaxReq
    /\ \E method \in Methods, path \in Paths, body \in Values :
          /\ Route(method, path) # "none"
          /\ method # "PUT" => body = ""
          /\ pending' = pending \cup {Request(Arrived + 1, method, path, body)}
    /\ UNCHANGED <<store, log>>

(* The handler of r has run: r leaves the set of requests in flight.  The   *)
(* handler called res.send / res.json once for each element of sends; the  *)
(* first call is the response on the wire.  It is recorded with the store  *)
(* before and after the handler, the number of calls and the route that   *)
(* was taken.                                                              *)
RespondAll(r, sends) ==
    /\ pending' = pending \ {r}
    /\ log' = Append(log, [req |-> r, resp |-> sends[1], before |-> store,
                           after |-> store', sent |-> Len(sends),
                           op |-> Route(r.method, r.path)])

Respond(r, resp) == RespondAll(r, <<resp>>)

(* app.get('/:key'): the 404 branch returns, so each path sends once *)
GetSends(st, key) ==
    IF ~HasProperty(st, key) THEN <<NotFound>>
    ELSE <<ResSend(GetProperty(st, key))>>

GetResponse(st, key) == GetSends(st, key)[1]

(* A get that consumes the entry it reads *)
HandleGetTake ==
    \E r \in pending :
        /\ Route(r.method, r.path) = "get"
        /\ store' = DeleteProperty(store, KeyOf(r))
        /\ Respond(r, GetResponse(store, KeyOf(r)))

HandleGet ==
    \E r \in pending :
        /\ Route(r.method, r.path) = "get"
        /\ store' = store
        /\ RespondAll(r, GetSends(store, KeyOf(r)))

(* A put that replaces the whole store by the one entry *)
PutStoreFresh(st, key, body) == SetProperty(<< >>, key, body)

(* app.put('/:key') *)
PutStore(st, key, body) == SetProperty(st, key, body)

PutResponse(body) == ResSend(JsString(body))

(* A put whose request state is shared between the requests in flight:     *)
(* the body stored and echoed is that of any PUT being processed.          *)
HandlePutShared ==
    \E r \in pending, q \in pending :
        /\ Route(r.method, r.path) = "put"
        /\ Route(q.method, q.path) = "put"
        /\ store' = PutStore(store, KeyOf(r), q.body)
        /\ Respond(r, PutResponse(q.body))

HandlePut ==
    \E r \in pending :
        /\ Route(r.method, r.path) = "put"
        /\ store' = PutStore(store, KeyOf(r), r.body)
        /\ RespondAll(r, <<PutResponse(r.body)>>)

(* app.delete('/:key') *)
DeleteStore(st, key) == DeleteProperty(st, key)

(* A delete that reports a missing key *)
DeleteResponseStrict(st, key) ==
    IF key \in DOMAIN st THEN ResJson(200, "deleted", key) ELSE NotFound

DeleteResponse(st, key) == ResJson(200, "deleted", key)

HandleDelete ==
    \E r \in pending :
        /\ Route(r.method, r.path) = "delete"
        /\ store' = DeleteStore(store, KeyOf(r))
        /\ RespondAll(r, <<DeleteResponse(store, KeyOf(r))>>)

(* app.delete('/'): Object.keys(store).forEach(k => delete store[k]) *)
RECURSIVE DeleteEach(_, _)
DeleteEach(st, ks) ==
    IF ks = {} THEN st
    ELSE LET k == CHOOSE x \in ks : TRUE
         IN DeleteEach(DeleteProperty(st, k), ks \ {k})

DeleteAllStore(st) == DeleteEach(st, ObjectKeys(st))

DeleteAllResponse == ResJson(200, "deleted", "all")

HandleDeleteAll ==
    \E r \in pending :
        /\ Route(r.method, r.path) = "delete_all"
        /\ store' = DeleteAllStore(store)
        /\ RespondAll(r, <<DeleteAllResponse>>)

Next ==
    \/ Receive
    \/ HandleGet
    \/ HandlePut
    \/ HandleDelete
    \/ HandleDeleteAll

Spec == Init /\ [][Next]_vars

(* Node's event loop runs the handler of every request it has received *)
LiveSpec ==
    /\ Spec
    /\ WF_vars(HandleGet)
    /\ WF_vars(HandlePut)
    /\ WF_vars(HandleDelete)
    /\ WF_vars(HandleDeleteAll)

(***************************************************************************)
(* Requests no route of server.js matches: a path of several segments      *)
(* (the README's /feature/new-ui) under any method, and GET or PUT on the  *)
(* root path.  Express passes them by every handler and answers 404        *)
(* "Cannot <METHOD> <path>" itself; the store is not touched.              *)
(***************************************************************************)
NestedPaths == {<<"feature", "new-ui">>}

CannotRoute == Response(404, "html", "", "Cannot")

ReceiveUnrouted ==
    /\ Arrived < MaxReq
    /\ \E method \in Methods, path \in Paths \cup NestedPaths, body \in Values :
          /\ Route(method, path) = "none"
          /\ method # "PUT" => body = ""
          /\ pending' = pending \cup {Request(Arrived + 1, method, path, body)}
    /\ UNCHANGED <<store, log>>

HandleNoRoute ==
    \E r \in pending :
        /\ Route(r.method, r.path) = "none"
        /\ store' = store
        /\ Respond(r, CannotRoute)

NextRouting ==
    \/ Next
    \/ ReceiveUnrouted
    \/ HandleNoRoute

SpecRouting == Init /\ [][NextRouting]_vars

(***************************************************************************)
(* The log read as a history of operations                                 *)
(***************************************************************************)
Idx == 1..Len(log)

Op(i) == log[i].op

IsGet(i, k) == Op(i) = "get" /\ KeyOf(log[i].req) = k
IsPut(i, k) == Op(i) = "put" /\ KeyOf(log[i].req) = k
IsDelete(i, k) == Op(i) = "delete" /\ KeyOf(log[i].req) = k
IsDeleteAll(i) == Op(i) = "delete_all"

(* No put(k), delete(k) or delete_all strictly between i and j *)
NoWriteBetween(i, j, k) ==
    \A m \in (i + 1)..(j - 1) : ~(IsPut(m, k) \/ IsDelete(m, k) \/ IsDeleteAll(m))

NoPutBetween(i, j, k) == \A m \in (i + 1)..(j - 1) : ~IsPut(m, k)

Ok(v) == Response(200, "text", "", v)

KeyNotFound == Response(404, "json", "error", "Key not found")

Deleted(k) == Response(200, "json", "deleted", k)

(* C1: a put(k, v) followed by a get(k), with no delete(k), delete_all or  *)
(* other put(k) between them, answers 200 with body exactly v, for every   *)
(* key the route accepts and every value.                                  *)
C1_RoundTrip ==
    \A i \in Idx, j \in Idx, k \in Keys :
        (i < j /\ IsPut(i, k) /\ IsGet(j, k) /\ NoWriteBetween(i, j, k))
            => log[j].resp = Ok(log[i].req.body)

(* C2: a get of a key that was never put answers 404 with                  *)
(* {"error":"Key not found"}, whatever the key string is.                  *)
C2_NeverPutNotFound ==
    \A j \in Idx, k \in Keys :
        (IsGet(j, k) /\ NoPutBetween(0, j, k)) => log[j].resp = KeyNotFound

(* C3: put(k, v1); put(k, v2); get(k) returns v2, and the store holds at   *)
(* most one value per key.                                                 *)
C3_LastWriteWins ==
    /\ \A i \in Idx, j \in Idx, l \in Idx, k \in Keys :
          (/\ i < j /\ j < l
           /\ IsPut(i, k) /\ IsPut(j, k) /\ IsGet(l, k)
           /\ NoWriteBetween(i, j, k) /\ NoWriteBetween(j, l, k))
              => log[l].resp = Ok(log[j].req.body)
    /\ \A k \in DOMAIN store : Cardinality({v \in Values : store[k] = v}) = 1

(* C4: after delete(k) and until the next put(k, _), every get(k) answers  *)
(* 404 with {"error":"Key not found"}, for every key string.               *)
C4_DeletedNotFound ==
    \A i \in Idx, j \in Idx, k \in Keys :
        (i < j /\ IsDelete(i, k) /\ IsGet(j, k) /\ NoPutBetween(i, j, k))
            => log[j].resp = KeyNotFound

(* C5: delete_all always answers 200 {"deleted":"all"} and leaves no       *)
(* entries; after it every get(k) answers NotFound until a later put(k);   *)
(* two delete_all in a row give the store and answer of one.               *)
C5_DeleteAllClears ==
    \A i \in Idx :
        IsDeleteAll(i) =>
            /\ log[i].resp = Deleted("all")
            /\ log[i].after = << >>
            /\ \A j \in Idx, k \in Keys :
                  (i < j /\ IsGet(j, k) /\ NoPutBetween(i, j, k))
                      => log[j].resp = KeyNotFound
            /\ (i > 1 /\ IsDeleteAll(i - 1)) =>
                  /\ log[i].after = log[i - 1].after
                  /\ log[i].resp = log[i - 1].resp

(* C6: delete(k) answers 200 {"deleted": k} whether or not k is present;   *)
(* deleting an absent key leaves the store unchanged; delete(k); delete(k) *)
(* gives the store and the answer of a single delete(k).                   *)
C6_DeleteIdempotent ==
    \A i \in Idx :
        Op(i) = "delete" =>
            LET k == KeyOf(log[i].req) IN
            /\ log[i].resp = Deleted(k)
            /\ k \notin DOMAIN log[i].before => log[i].after = log[i].before
            /\ (i > 1 /\ IsDelete(i - 1, k)) =>
                  /\ log[i].after = log[i - 1].after
                  /\ log[i].resp = log[i - 1].resp

(* A present key was deleted twice in a row, and an absent key was deleted *)
C6_Witness ==
    /\ \E i \in Idx, k \in Keys :
          /\ i > 1 /\ IsDelete(i, k) /\ IsDelete(i - 1, k)
          /\ k \in DOMAIN log[i - 1].before
    /\ \E i \in Idx : IsDelete(i, "constructor") /\ log[i].before = << >>

(* C7: every put(k, v) answers 200 with body exactly v and the store maps  *)
(* k to v right after it.                                                  *)
C7_PutTotal ==
    \A i \in Idx, k \in Keys :
        IsPut(i, k) =>
            /\ log[i].resp = Ok(log[i].req.body)
            /\ k \in DOMAIN log[i].after
            /\ log[i].after[k] = log[i].req.body

(* The operations applied one after the other, in the order the handlers   *)
(* ran: what an operation makes of a store, and what it answers.           *)
SeqApply(st, r) ==
    CASE Route(r.method, r.path) = "get" -> st
      [] Route(r.method, r.path) = "put" -> PutStore(st, KeyOf(r), r.body)
      [] Route(r.method, r.path) = "delete" -> DeleteStore(st, KeyOf(r))
      [] Route(r.method, r.path) = "delete_all" -> DeleteAllStore(st)

SeqAnswer(st, r) ==
    CASE Route(r.method, r.path) = "get" -> GetResponse(st, KeyOf(r))
      [] Route(r.method, r.path) = "put" -> PutResponse(r.body)
      [] Route(r.method, r.path) = "delete" -> DeleteResponse(st, KeyOf(r))
      [] Route(r.method, r.path) = "delete_all" -> DeleteAllResponse

(* The store the n-th handler found: the one the handler before it left *)
SeqStore(n) == IF n = 0 THEN << >> ELSE log[n].after

(* Two handled requests that were in flight together: the one handled      *)
(* first arrived after the other.                                          *)
Overlapped(i, j) == i < j /\ log[i].req.id > log[j].req.id

(* C8: with requests in flight together every handler takes effect as one  *)
(* step: the answers and the store are those of the operations applied     *)
(* one after the other in the order the handlers ran, and a put(k, v)      *)
(* in flight together with a delete(k) leaves k absent or mapped to v.     *)
C8_Atomic ==
    /\ \A i \in Idx :
          /\ log[i].before = SeqStore(i - 1)
          /\ log[i].resp = SeqAnswer(SeqStore(i - 1), log[i].req)
          /\ log[i].after = SeqApply(SeqStore(i - 1), log[i].req)
    /\ store = SeqStore(Len(log))
    /\ \A i \in Idx :
          Op(i) = "put" =>
              \A j \in Idx :
                  (/\ IsDelete(j, KeyOf(log[i].req))
                   /\ Overlapped(i, j) \/ Overlapped(j, i)
                   /\ \A m \in Idx \ {i} : ~IsPut(m, KeyOf(log[i].req)))
                      => \/ KeyOf(log[i].req) \notin DOMAIN store
                         \/ store[KeyOf(log[i].req)] = log[i].req.body

(* A put and a delete of one key were in flight together and left the key  *)
(* present; two puts of different bodies were in flight together.          *)
C8_Witness ==
    /\ \E i \in Idx, j \in Idx :
          /\ Overlapped(j, i) /\ IsPut(i, "a") /\ IsDelete(j, "a")
          /\ "a" \in DOMAIN store
    /\ \E i \in Idx, j \in Idx :
          /\ Overlapped(i, j) /\ IsPut(i, "a") /\ IsPut(j, "a")
          /\ log[i].req.body # log[j].req.body

(* C9: a get, whether it answers 200 or 404, leaves the whole store        *)
(* unchanged.                                                              *)
C9_GetNoSideEffect ==
    \A i \in Idx : Op(i) = "get" => log[i].after = log[i].before

(* A get answered 200 with a stored value and a get answered 404 *)
C9_Witness ==
    /\ \E i \in Idx : IsGet(i, "a") /\ log[i].resp = Ok("x")
    /\ \E i \in Idx : Op(i) = "get" /\ log[i].resp = KeyNotFound

(* C10: a 404 is produced exactly when a get is handled while its key has  *)
(* no value in the store; a get of a present key answers 200 with the      *)
(* key's value; no other response is an error.                             *)
C10_OnlyNotFound ==
    \A i \in Idx :
        /\ log[i].resp.status = 404
              <=> (Op(i) = "get" /\ KeyOf(log[i].req) \notin DOMAIN log[i].before)
        /\ (Op(i) = "get" /\ KeyOf(log[i].req) \in DOMAIN log[i].before)
              => log[i].resp = Ok(log[i].before[KeyOf(log[i].req)])
        /\ log[i].resp.status # 200 => log[i].resp = KeyNotFound

(* C11: a PUT to a path with a '/' in the key, as in the README's          *)
(* /feature/new-ui, stores the body under that key and answers 200 with    *)
(* it, and a following GET of the same path answers 200 with that body.    *)
C11_NestedKeys ==
    \A i \in Idx :
        (log[i].req.method = "PUT" /\ log[i].req.path \in NestedPaths) =>
            /\ log[i].resp = Ok(log[i].req.body)
            /\ \E k \in DOMAIN log[i].after : log[i].after[k] = log[i].req.body
            /\ \A j \in Idx :
                  (/\ j = i + 1
                   /\ log[j].req.method = "GET"
                   /\ log[j].req.path = log[i].req.path)
                      => log[j].resp = Ok(log[i].req.body)

(* C12: put(k, v) and delete(k) leave the presence and the value of every  *)
(* other key unchanged; a key other than the one a request names is        *)
(* removed by delete_all only; a DELETE on the root path is handled as     *)
(* delete_all, never as the delete of one key.                             *)
C12_Frame ==
    \A i \in Idx :
        /\ Op(i) \in {"put", "delete"} =>
              \A j \in Keys \ {KeyOf(log[i].req)} :
                  /\ j \in DOMAIN log[i].before <=> j \in DOMAIN log[i].after
                  /\ j \in DOMAIN log[i].before
                        => log[i].after[j] = log[i].before[j]
        /\ \A j \in DOMAIN log[i].before \ DOMAIN log[i].after :
              \/ Op(i) = "delete_all"
              \/ Op(i) = "delete" /\ KeyOf(log[i].req) = j
        /\ (log[i].req.method = "DELETE" /\ log[i].req.path = << >>) =>
              /\ log[i].resp = Deleted("all")
              /\ log[i].after = << >>

(* With "a" stored, "constructor" was put and then deleted, and "a" kept   *)
(* its value through both.                                                 *)
C12_Witness ==
    \E i \in Idx, j \in Idx :
        /\ i < j
        /\ IsPut(i, "constructor") /\ IsDelete(j, "constructor")
        /\ "a" \in DOMAIN log[i].before /\ "a" \in DOMAIN log[j].after
        /\ "constructor" \in DOMAIN log[j].before
        /\ log[j].after["a"] = log[i].before["a"]

(* C13: when several puts of one key with different bodies are in flight   *)
(* together, each is answered with the body it sent itself, and once all   *)
(* have been handled the store maps the key to the body of the put whose   *)
(* handler ran last.                                                       *)
C13_ConcurrentPuts ==
    \A i \in Idx :
        Op(i) = "put" =>
            \A j \in Idx :
                (/\ Overlapped(i, j)
                 /\ IsPut(j, KeyOf(log[i].req))
                 /\ log[i].req.body # log[j].req.body)
                    => /\ log[i].resp = Ok(log[i].req.body)
                       /\ log[j].resp = Ok(log[j].req.body)
                       /\ KeyOf(log[j].req) \in DOMAIN log[j].after
                       /\ log[j].after[KeyOf(log[j].req)] = log[j].req.body

(* Request id is in flight / has been answered *)
InFlight(id) == \E r \in pending : r.id = id

Answered(id) == \E i \in Idx : log[i].req.id = id

(* Each handler run sent exactly once, no request was answered twice, and  *)
(* a get of a key without a value sent the 404 body and nothing else.      *)
OneResponseEach ==
    /\ \A i \in Idx : log[i].sent = 1
    /\ \A i \in Idx, j \in Idx : log[i].req.id = log[j].req.id => i = j
    /\ \A i \in Idx :
          (Op(i) = "get" /\ KeyOf(log[i].req) \notin DOMAIN log[i].before)
              => log[i].resp = KeyNotFound

(* C14: every request that reaches a handler eventually gets exactly one   *)
(* response: no handler path sends twice or not at all, and a get on an    *)
(* absent key sends only the 404 error body.                               *)
C14_ExactlyOneResponse ==
    /\ []OneResponseEach
    /\ \A id \in 1..MaxReq : InFlight(id) ~> Answered(id)

====
